---- MODULE Spec2Model ----
(***************************************************************************)
(* The ingestion pipeline of dagreader (store.go) over the neo4j bridge    *)
(* (package neo4j: Db.Load, Db.HasEvent, Db.GetEvent, Db.FindAncestors,     *)
(* Db.SetEpoch, Db.GetEpoch).                                              *)
(*                                                                         *)
(* Goroutines: the producers (callers of store.Save), the consumer         *)
(* (Db.Load, started by newStore), a reader (the query operations), and    *)
(* the owner of the store (Close, WaitForAll).  A Go panic in any          *)
(* goroutine ends the process: it is recorded in panicked, and no action   *)
(* is enabled afterwards.                                                  *)
(*                                                                         *)
(* The backing store is the environment.  Each transaction the code runs   *)
(* against it ends in one of the outcomes the driver can report; the       *)
(* actions draw that outcome from WriteOutcomes / ReadOutcomes.            *)
(* drv.Session() is taken to succeed (it fails only on a closed driver,    *)
(* and nothing here closes the driver).  The uniqueness constraint on      *)
(* Event.id is taken to be in force.                                       *)
(***************************************************************************)
EXTENDS Integers, Sequences, FiniteSets, TLC

(***************************************************************************)
(* Bounds of the model.                                                    *)
(***************************************************************************)
NumEvents == 3      \* size of the event universe
NumProducers == 2   \* goroutines calling Save
MaxSaves == 3       \* Save calls in one run
\* Capacity of the header cache.  The program uses lru.New(500); the model
\* scales it below the number of events so that eviction is reachable.
CacheSize == 2

\* make(chan neo4j.ToStore, 10)
QueueCap == 10

Events == 1..NumEvents
Producers == 1..NumProducers
NoEvent == 0
NoProducer == 0

\* The DAG the producers feed: event e has the (at most two) events before
\* it as parents.  With three events: A = 1 without parents, B = 2 with
\* parent A, C = 3 with parents A and B.
Parents(e) == {p \in Events : p < e /\ p >= e - 2}

Creator(e) == e % 2

\* inter.Event as this layer sees it: hash, creator, parents.
EventOf(e) == [id |-> e, creator |-> Creator(e), parents |-> Parents(e)]

NilEvent == [id |-> NoEvent, creator |-> 0, parents |-> {}]

\* task{event, onDone}: onDone is nil (NoProducer) or the closure over the
\* WaitGroup of the Save call of a producer.  id is the task's place in the
\* order of enqueueing, 0 until it is enqueued.
NoTask == [id |-> 0, event |-> NoEvent, onDone |-> NoProducer]

VARIABLES
    synced,     \* store.synced
    out,        \* store.out: the buffered part of the channel
    sendq,      \* producers blocked in `s.out <- t`, in arrival order
    closed,     \* close(s.out) has run
    ppc,        \* producer -> "idle" | "blocked" | "wait"
    pev,        \* producer -> the event its Save was called with, while in Save
    ptask,      \* producer -> the task t of its Save (id 0 until enqueued)
    wg,         \* producer -> counter of the WaitGroup local to its Save
    univ,       \* the events the producers are given to save
    budget,     \* Save calls left in this run
    nsent,      \* tasks placed on the channel
    cpc,        \* consumer: "recv" | "tx" | "add" | "done" | "exited" | "panic"
    cur,        \* the task of the consumer's current iteration
    total,      \* Load's total
    storeWg,    \* store.wg
    wpc,        \* WaitForAll: "none" | "returned"
    nodes,      \* Event nodes of the store
    edges,      \* PARENT edges of the store: <<child, parent>>
    epoch,      \* num of the Epoch row, NoRow when the row is absent
    epochSet,   \* history: the argument of the last SetEpoch the store committed, 0 if none
    cache,      \* cache.EventsHeaders: hashes, most recently used first
    log,        \* history: what the consumer did, in order: <<kind, task id>>
    lastTx,     \* history: how the last write transaction of Load ended
    returned,   \* history: the events whose synchronous Save has returned
    ret,        \* the last query call and what it returned
    panicked    \* "none", or the panic that ended the process

vars == <<synced, out, sendq, closed, ppc, pev, ptask, wg, univ, budget,
          nsent, cpc, cur, total, storeWg, wpc, nodes, edges, epoch, cache,
          log, lastTx, returned, ret, panicked, epochSet>>

\* The pipeline: channel, producers, consumer position, wait groups.
pipeVars == <<synced, out, sendq, closed, ppc, pev, ptask, wg, nsent, cpc,
              cur, total, storeWg, wpc>>

storeVars == <<nodes, edges, epoch, epochSet>>

NoRow == 0

NoRet == [op |-> "none", arg |-> 0, outcome |-> <<>>, panic |-> FALSE, val |-> FALSE]

Running == panicked = "none"

\* A goroutine can take a step: the process is alive, and the reader is not
\* in the middle of handing over the result of a query.
Ready == Running /\ ret.op = "none"

(***************************************************************************)
(* cache.EventsHeaders (hashicorp/golang-lru): Get moves a hit to the      *)
(* front, Add puts the key at the front and evicts the oldest entry when   *)
(* the cache is over capacity.                                             *)
(***************************************************************************)
InCache(h) == \E i \in 1..Len(cache) : cache[i] = h

Without(s, h) == SelectSeq(s, LAMBDA x : x # h)

Front(s, n) == IF Len(s) > n THEN SubSeq(s, 1, n) ELSE s

CacheGet(h) == IF InCache(h) THEN <<h>> \o Without(cache, h) ELSE cache

\* Mutation of CacheAdd: the key is put at the oldest end.
CacheAddOldest(h) == Front(Without(cache, h) \o <<h>>, CacheSize)

CacheAdd(h) == Front(<<h>> \o Without(cache, h), CacheSize)

(***************************************************************************)
(* store.Save (store.go:66-80).  The task is built, `s.out <- t` either    *)
(* places it in the buffer, parks the producer on the channel's send queue *)
(* (buffer full), or panics (channel closed).  In synchronous mode the     *)
(* producer then waits on the task's own WaitGroup.                        *)
(***************************************************************************)
NewTask(p, e) ==
    [id |-> 0, event |-> e, onDone |-> IF synced THEN p ELSE NoProducer]

\* Mutation of HasRoom: the capacity test is off by one.
HasRoomOffByOne == Len(out) <= QueueCap

\* `s.out <- t` does not block: the buffer has a free slot.
HasRoom == Len(out) < QueueCap

\* What a producer does once its task is in the buffer: wg.Wait() or return.
AfterSend == IF synced THEN "wait" ELSE "idle"

\* The locals of Save once the task is in the buffer: a synchronous Save
\* goes on with them, an asynchronous Save returns and they are gone.
Kept(x, none) == IF synced THEN x ELSE none

\* Mutation of SendPanics: a send on the closed channel goes through.
SendNeverPanics == FALSE

\* `s.out <- t` on a closed channel panics.
SendPanics == closed

\* Idle producers do not differ (the locals of a finished Save are gone),
\* so the next call is given to the first of them.
FirstIdle(p) == \A q \in Producers : q < p => ppc[q] # "idle"

Save(p, e) ==
    /\ Ready
    /\ ppc[p] = "idle"
    /\ FirstIdle(p)
    /\ budget > 0
    /\ e \in univ
    /\ IF SendPanics
         THEN \* the send panics; the locals of the call die with the process
              /\ panicked' = "send on closed channel"
              /\ UNCHANGED <<out, sendq, ppc, pev, ptask, wg, nsent, budget>>
         ELSE /\ budget' = budget - 1
              /\ wg' = [wg EXCEPT ![p] = IF synced THEN 1 ELSE 0]
              /\ UNCHANGED panicked
              /\ IF HasRoom
                   THEN /\ out' = Append(out, [NewTask(p, e) EXCEPT !.id = nsent + 1])
                        /\ nsent' = nsent + 1
                        /\ pev' = [pev EXCEPT ![p] = Kept(e, NoEvent)]
                        /\ ptask' = [ptask EXCEPT ![p] =
                                        Kept([NewTask(p, e) EXCEPT !.id = nsent + 1], NoTask)]
                        /\ ppc' = [ppc EXCEPT ![p] = AfterSend]
                        /\ UNCHANGED sendq
                   ELSE /\ sendq' = Append(sendq, p)
                        /\ pev' = [pev EXCEPT ![p] = e]
                        /\ ptask' = [ptask EXCEPT ![p] = NewTask(p, e)]
                        /\ ppc' = [ppc EXCEPT ![p] = "blocked"]
                        /\ UNCHANGED <<out, nsent>>
    /\ UNCHANGED <<synced, closed, univ, cpc, cur, total, storeWg, wpc, nodes,
                   edges, epoch, epochSet, cache, log, ret, returned, lastTx>>

\* wg.Wait() of a synchronous Save returns (store.go:77-79).
SaveReturn(p) ==
    /\ Ready
    /\ ppc[p] = "wait"
    /\ wg[p] = 0
    /\ ppc' = [ppc EXCEPT ![p] = "idle"]
    /\ pev' = [pev EXCEPT ![p] = NoEvent]
    /\ ptask' = [ptask EXCEPT ![p] = NoTask]
    /\ returned' = returned \cup {pev[p]}
    /\ UNCHANGED <<synced, out, sendq, closed, wg, univ, budget,
                   nsent, cpc, cur, total, storeWg, wpc, nodes, edges, epoch, epochSet,
                   cache, log, ret, panicked, lastTx>>

(***************************************************************************)
(* store.Close (store.go:58-60): close(s.out).  Closing a closed channel   *)
(* panics; closing a channel with parked senders makes them panic.         *)
(***************************************************************************)
Close ==
    /\ Ready
    /\ closed' = TRUE
    /\ panicked' = IF closed THEN "close of closed channel"
                   ELSE IF sendq # <<>> THEN "send on closed channel"
                   ELSE panicked
    /\ UNCHANGED <<synced, out, sendq, ppc, pev, ptask, wg, univ, budget, nsent,
                   cpc, cur, total, storeWg, wpc, nodes, edges, epoch, epochSet, cache,
                   log, ret, returned, lastTx>>

(***************************************************************************)
(* store.WaitForAll (store.go:62-64): s.wg.Wait() blocks while the counter *)
(* of store.wg is positive; the action is the call returning.              *)
(***************************************************************************)
WaitForAll ==
    /\ Ready
    /\ wpc = "none"
    /\ storeWg = 0
    /\ wpc' = "returned"
    /\ UNCHANGED <<synced, out, sendq, closed, ppc, pev, ptask, wg, univ,
                   budget, nsent, cpc, cur, total, storeWg, nodes, edges, epoch, epochSet,
                   cache, log, ret, panicked, returned, lastTx>>

(***************************************************************************)
(* Db.Load (neo4j, lines 177-241): the consumer.  One iteration of         *)
(* `for task := range events` is four steps, so that the other goroutines  *)
(* can run between them: receive, write transaction, cache add, task.Done. *)
(***************************************************************************)
\* How session.WriteTransaction can end: committed; the transaction failed
\* and WriteTransaction returned the error (line 216); ctx.Run returned an
\* error to exec, which the work function turns into a panic (lines 200-202,
\* 209-211).
WriteOutcomes == {"ok", "commit_err", "exec_err"}

\* Mutation of Commits: what the transaction wrote stays after a failed commit.
CommitsDespiteError(e, o) == TRUE

\* `CREATE (e:Event ...)` is rejected by the uniqueness constraint when the
\* node exists.  The driver reports the rejection from ctx.Run or from
\* ctx.Commit; the transaction does not commit.
CanEnd(e, o) == e \in nodes => o # "ok"

Commits(e, o) == o = "ok"

\* `MATCH (e:Event), (p:Event) CREATE (e)-[:PARENT]->(p)` per parent: an
\* edge for each parent whose node the transaction can see, nothing for the
\* others.
NewEdges(e) == {<<e, p>> : p \in Parents(e) \cap (nodes \cup {e})}

\* Mutation of StepAfter: task.Done() runs before the cache add.
StepAfterDoneFirst(step) ==
    CASE step = "recv" -> "tx"
      [] step = "tx" -> "done"
      [] step = "done" -> "add"
      [] step = "add" -> "recv"

\* The order of the steps of one iteration (lines 194-221).
StepAfter(step) ==
    CASE step = "recv" -> "tx"
      [] step = "tx" -> "add"
      [] step = "add" -> "done"
      [] step = "done" -> "recv"

\* Mutation of Dequeue: the newest task is taken first.
DequeueNewest(q) == q[Len(q)]

\* The task `range events` yields: the oldest one in the buffer.
Dequeue(q) == Head(q)

Rest(q) == Tail(q)

\* Mutation of RangeEnds: the loop ends as soon as the channel is closed.
RangeEndsOnClose == closed

\* `range events` ends when the channel is closed and drained.
RangeEnds == closed /\ out = <<>>

LoadRecv ==
    /\ Ready
    /\ cpc = "recv"
    /\ out # <<>>
    /\ cur' = Dequeue(out)
    /\ cpc' = StepAfter("recv")
    /\ IF sendq # <<>>
         THEN \* the first parked sender's task takes the freed slot
              LET p == Head(sendq)
                  t == [ptask[p] EXCEPT !.id = nsent + 1]
              IN /\ out' = Append(Rest(out), t)
                 /\ sendq' = Tail(sendq)
                 /\ nsent' = nsent + 1
                 /\ pev' = [pev EXCEPT ![p] = Kept(@, NoEvent)]
                 /\ ptask' = [ptask EXCEPT ![p] = Kept(t, NoTask)]
                 /\ ppc' = [ppc EXCEPT ![p] = AfterSend]
         ELSE /\ out' = Rest(out)
              /\ UNCHANGED <<sendq, nsent, pev, ptask, ppc>>
    /\ UNCHANGED <<synced, closed, wg, univ, budget, total, storeWg, wpc,
                   nodes, edges, epoch, epochSet, cache, log, ret, panicked, returned, lastTx>>

LoadTx(o) ==
    /\ Ready
    /\ cpc = "tx"
    /\ CanEnd(cur.event, o)
    /\ log' = Append(log, <<"commit", cur.id>>)
    /\ lastTx' = o
    /\ IF o = "exec_err"
         THEN \* panic(err): the goroutine unwinds, and the deferred
              \* s.wg.Done() of newStore runs (store.go:50-51)
              /\ cpc' = "panic"
              /\ storeWg' = storeWg - 1
              /\ UNCHANGED <<nodes, edges>>
         ELSE /\ cpc' = StepAfter("tx")
              /\ nodes' = IF Commits(cur.event, o) THEN nodes \cup {cur.event} ELSE nodes
              /\ edges' = IF Commits(cur.event, o) THEN edges \cup NewEdges(cur.event) ELSE edges
              /\ UNCHANGED storeWg
    /\ UNCHANGED <<synced, out, sendq, closed, ppc, pev, ptask, wg, univ,
                   budget, nsent, cur, total, wpc, epoch, epochSet, cache, ret,
                   returned, panicked>>

\* The panic of Load, not recovered, ends the process once the deferred
\* calls have run.  Until then the other goroutines go on.
LoadPanic ==
    /\ Ready
    /\ cpc = "panic"
    /\ panicked' = "Load: exec"
    /\ UNCHANGED <<pipeVars, univ, budget, nodes, edges, epoch, epochSet, cache,
                   log, lastTx, returned, ret>>

LoadAdd ==
    /\ Ready
    /\ cpc = "add"
    /\ cache' = CacheAdd(cur.event)
    /\ log' = Append(log, <<"cache", cur.id>>)
    /\ cpc' = StepAfter("add")
    /\ UNCHANGED <<synced, out, sendq, closed, ppc, pev, ptask, wg, univ,
                   budget, nsent, cur, total, storeWg, wpc, nodes, edges, epoch, epochSet,
                   ret, panicked, returned, lastTx>>

\* Mutation of TaskDone: the signal is lost.
TaskDoneNever(t) == wg

\* Mutation of TaskDone: the signal releases every waiting Save.
TaskDoneAll(t) == [p \in Producers |-> 0]

\* task.Done (store.go:22-26): onDone, when set, is wg.Done of the WaitGroup
\* of the Save call that built the task.
TaskDone(t) ==
    IF t.onDone # NoProducer
    THEN [wg EXCEPT ![t.onDone] = @ - 1]
    ELSE wg

\* task.Done, then the counters of lines 223-225.
LoadDone ==
    /\ Ready
    /\ cpc = "done"
    /\ wg' = TaskDone(cur)
    /\ log' = Append(log, <<"done", cur.id>>)
    /\ total' = total + 1
    /\ cur' = NoTask                    \* the iteration is over
    /\ cpc' = StepAfter("done")
    /\ UNCHANGED <<synced, out, sendq, closed, ppc, pev, ptask, univ, budget,
                   nsent, storeWg, wpc, nodes, edges, epoch, epochSet, cache, ret, panicked, returned, lastTx>>

\* The loop ends, Load returns, the goroutine of newStore runs s.wg.Done().
LoadExit ==
    /\ Ready
    /\ cpc = "recv"
    /\ RangeEnds
    /\ cpc' = "exited"
    /\ storeWg' = storeWg - 1
    /\ UNCHANGED <<synced, out, sendq, closed, ppc, pev, ptask, wg, univ,
                   budget, nsent, cur, total, wpc, nodes, edges, epoch, epochSet, cache,
                   log, ret, panicked, returned, lastTx>>

(***************************************************************************)
(* The query operations of Db.  Each is an operator from the hash and the  *)
(* outcome of its read transaction(s) to what the call does: the value it  *)
(* returns, or a panic.                                                     *)
(***************************************************************************)
\* How session.ReadTransaction can end: the work function ran and its result
\* is returned; the transaction failed and (nil, err) is returned; ctx.Run
\* returned an error to search, which the work function turns into a panic.
ReadOutcomes == {"ok", "tx_err", "query_err"}

\* Db.HasEvent (lines 84-114).  After a failed transaction res is nil and
\* `res.(bool)` panics.
HasEvent(h, o) ==
    IF InCache(h) THEN [panic |-> FALSE, val |-> TRUE]
    ELSE IF o = "query_err" THEN [panic |-> TRUE, val |-> FALSE]
    ELSE IF o = "tx_err" THEN [panic |-> TRUE, val |-> FALSE]
    ELSE [panic |-> FALSE, val |-> h \in nodes]

\* The header Db.GetEvent rebuilds from the store: the node's id and
\* creator, and the parents its PARENT edges lead to (lines 131-171).
StoredEvent(h) ==
    [id |-> h, creator |-> Creator(h), parents |-> {p \in Events : <<h, p>> \in edges}]

\* Db.GetEvent (lines 116-174).  o1 is the outcome of the node lookup, o2
\* that of the parents lookup.  A failed node lookup leaves res nil, which
\* is returned as "not found"; a failed parents lookup leaves res nil and
\* `res.(hash.Events)` panics.
GetEvent(h, o1, o2) ==
    IF InCache(h) THEN [panic |-> FALSE, val |-> EventOf(h)]
    ELSE IF o1 = "query_err" THEN [panic |-> TRUE, val |-> NilEvent]
    ELSE IF o1 = "tx_err" \/ h \notin nodes THEN [panic |-> FALSE, val |-> NilEvent]
    ELSE IF o2 # "ok" THEN [panic |-> TRUE, val |-> NilEvent]
    ELSE [panic |-> FALSE, val |-> StoredEvent(h)]

\* Whether GetEvent gets as far as the parents lookup.
SecondLookup(h, o1) == ~InCache(h) /\ o1 = "ok" /\ h \in nodes

RECURSIVE SeqOf(_)
SeqOf(S) ==
    IF S = {} THEN <<>>
    ELSE LET m == CHOOSE x \in S : \A y \in S : x <= y
         IN <<m>> \o SeqOf(S \ {m})

RECURSIVE Concat(_)
Concat(ss) == IF ss = <<>> THEN <<>> ELSE Head(ss) \o Concat(Tail(ss))

\* The rows of `MATCH (p:Event {id})-[:PARENT*]->(s:Event) RETURN s.id`:
\* one row per path of one or more PARENT edges leaving a, of at most n edges.
RECURSIVE PathEnds(_, _)
PathEnds(a, n) ==
    IF n = 0 THEN <<>>
    ELSE LET kids == SeqOf({b \in Events : <<a, b>> \in edges})
         IN Concat([i \in 1..Len(kids) |-> <<kids[i]>> \o PathEnds(kids[i], n - 1)])

\* DISTINCT: each value once, in the order of its first row.
RECURSIVE Distinct(_)
Distinct(s) ==
    IF s = <<>> THEN <<>>
    ELSE <<Head(s)>> \o Distinct(Without(Tail(s), Head(s)))

\* The rows of the query of Db.FindAncestors (line 254).
AncestorRows(h) == Distinct(PathEnds(h, NumEvents))

\* Db.FindAncestors (lines 244-273).  The cache is not consulted.  After a
\* failed transaction res is nil and `res.([]hash.Event)` panics.
FindAncestors(h, o) ==
    IF o # "ok" THEN [panic |-> TRUE, val |-> <<>>]
    ELSE [panic |-> FALSE, val |-> AncestorRows(h)]

PanicOf(op, o) ==
    IF o = "query_err" THEN op \o ": search" ELSE op \o ": nil result"

HasEventCall(h, o) ==
    /\ Ready
    /\ InCache(h) => o = "ok"           \* no transaction on a cache hit
    /\ cache' = CacheGet(h)
    /\ LET r == HasEvent(h, o)
           oo == IF InCache(h) THEN "none" ELSE o
       IN /\ ret' = [op |-> "HasEvent", arg |-> h, outcome |-> <<oo>>,
                     panic |-> r.panic, val |-> r.val]
          /\ panicked' = IF r.panic THEN PanicOf("HasEvent", o) ELSE panicked
    /\ UNCHANGED <<pipeVars, univ, budget, nodes, edges, epoch, epochSet, log, returned, lastTx>>

GetEventCall(h, o1, o2) ==
    /\ Ready
    /\ InCache(h) => o1 = "ok"          \* no transaction on a cache hit
    /\ ~SecondLookup(h, o1) => o2 = "ok" \* no second transaction
    /\ cache' = CacheGet(h)
    /\ LET r == GetEvent(h, o1, o2)
           oo1 == IF InCache(h) THEN "none" ELSE o1
           oo2 == IF SecondLookup(h, o1) THEN o2 ELSE "none"
       IN /\ ret' = [op |-> "GetEvent", arg |-> h, outcome |-> <<oo1, oo2>>,
                     panic |-> r.panic, val |-> r.val]
          /\ panicked' = IF r.panic
                         THEN PanicOf("GetEvent", IF o1 = "ok" THEN o2 ELSE o1)
                         ELSE panicked
    /\ UNCHANGED <<pipeVars, univ, budget, nodes, edges, epoch, epochSet, log, returned, lastTx>>

FindAncestorsCall(h, o) ==
    /\ Ready
    /\ LET r == FindAncestors(h, o)
       IN /\ ret' = [op |-> "FindAncestors", arg |-> h, outcome |-> <<o>>,
                     panic |-> r.panic, val |-> r.val]
          /\ panicked' = IF r.panic THEN PanicOf("FindAncestors", o) ELSE panicked
    /\ UNCHANGED <<pipeVars, univ, budget, nodes, edges, epoch, epochSet, cache, log, returned, lastTx>>

\* The caller of a query takes its result: the reader is free for the next
\* call, and the other goroutines go on.
ReadReturn ==
    /\ Running
    /\ ret.op # "none"
    /\ ret' = NoRet
    /\ UNCHANGED <<pipeVars, univ, budget, nodes, edges, epoch, epochSet, cache,
                   log, panicked, returned, lastTx>>

(***************************************************************************)
(* The epoch counter: one node (e:Epoch {id:'current'}) with property num. *)
(* New seeds it with num 1 (line 49) and ignores the failure of any of its *)
(* DDL transactions (lines 63-65), so the row may be absent.               *)
(***************************************************************************)
MaxEpoch == 3       \* epochs the callers set are 1..MaxEpoch

\* `MATCH (e:Epoch {id:'current'}) SET e.num = v` (line 286): sets num of
\* the row the MATCH finds; with no row there is nothing to set.
EpochAfterSet(v, o) ==
    IF o = "ok" /\ epoch # NoRow THEN v ELSE epoch

\* Db.GetEpoch (lines 299-329): the row's num; 1 when the query has no row,
\* and also when the transaction failed and res is nil (lines 322-327).
GetEpoch(o) ==
    IF o = "query_err" THEN [panic |-> TRUE, val |-> 0]
    ELSE IF o = "tx_err" \/ epoch = NoRow THEN [panic |-> FALSE, val |-> 1]
    ELSE [panic |-> FALSE, val |-> epoch]

\* Db.SetEpoch (lines 275-297).
SetEpochCall(v, o) ==
    /\ Ready
    /\ epoch' = EpochAfterSet(v, o)
    /\ ret' = [op |-> "SetEpoch", arg |-> v, outcome |-> <<o>>,
               panic |-> o = "exec_err", val |-> FALSE]
    /\ panicked' = IF o = "exec_err" THEN "SetEpoch: exec" ELSE panicked
    /\ epochSet' = IF o = "ok" THEN v ELSE epochSet
    /\ UNCHANGED <<pipeVars, univ, budget, nodes, edges, cache, log, returned, lastTx>>

GetEpochCall(o) ==
    /\ Ready
    /\ LET r == GetEpoch(o)
       IN /\ ret' = [op |-> "GetEpoch", arg |-> 0, outcome |-> <<o>>,
                     panic |-> r.panic, val |-> r.val]
          /\ panicked' = IF r.panic THEN "GetEpoch: search" ELSE panicked
    /\ UNCHANGED <<pipeVars, univ, budget, nodes, edges, epoch, epochSet, cache, log, returned, lastTx>>

(***************************************************************************)
(* The state after newStore(New(url), synced).                             *)
(***************************************************************************)
InitPipe ==
    /\ out = <<>>
    /\ sendq = <<>>
    /\ closed = FALSE
    /\ ppc = [p \in Producers |-> "idle"]
    /\ pev = [p \in Producers |-> NoEvent]
    /\ ptask = [p \in Producers |-> NoTask]
    /\ wg = [p \in Producers |-> 0]
    /\ nsent = 0
    /\ cpc = "recv"
    /\ cur = NoTask
    /\ total = 0
    /\ storeWg = 1
    /\ wpc = "none"
    /\ nodes = {}
    /\ edges = {}
    /\ cache = <<>>
    /\ log = <<>>
    /\ lastTx = "none"
    /\ returned = {}
    /\ ret = NoRet
    /\ panicked = "none"

Init ==
    /\ InitPipe
    /\ synced \in BOOLEAN
    /\ univ = Events
    /\ budget = MaxSaves
    /\ epoch = 1
    /\ epochSet = 0

\* The pipeline alone: producers, owner, consumer.
NextPipe ==
    \/ \E p \in Producers, e \in Events : Save(p, e)
    \/ \E p \in Producers : SaveReturn(p)
    \/ Close
    \/ WaitForAll
    \/ LoadRecv
    \/ \E o \in WriteOutcomes : LoadTx(o)
    \/ LoadAdd
    \/ LoadDone
    \/ LoadExit
    \/ LoadPanic

Next ==
    \/ NextPipe
    \/ \E h \in Events, o \in ReadOutcomes : HasEventCall(h, o)
    \/ \E h \in Events, o1 \in ReadOutcomes, o2 \in ReadOutcomes : GetEventCall(h, o1, o2)
    \/ \E h \in Events, o \in ReadOutcomes : FindAncestorsCall(h, o)
    \/ ReadReturn

Spec == Init /\ [][Next]_vars

\* The same pipeline with no query call made.
SpecPipe == Init /\ [][NextPipe]_vars

\* A store created in synchronous mode; the reader calls GetEvent for the
\* events whose Save has returned.
InitSync == Init /\ synced

NextSync ==
    \/ NextPipe
    \/ \E h \in returned, o1 \in ReadOutcomes, o2 \in ReadOutcomes : GetEventCall(h, o1, o2)
    \/ ReadReturn

SpecSync == InitSync /\ [][NextSync]_vars

(***************************************************************************)
(* The channel at capacity: one event, asynchronous producers, enough Save *)
(* calls to fill the buffer and park every producer.                       *)
(***************************************************************************)
MaxSavesQ == 12

InitQueue ==
    /\ InitPipe
    /\ synced \in BOOLEAN
    /\ univ = {1}
    /\ budget = MaxSavesQ
    /\ epoch = 1
    /\ epochSet = 0

SpecQueue == InitQueue /\ [][NextPipe]_vars

(***************************************************************************)
(* The pipeline at capacity under fair scheduling.  Every commit attempt   *)
(* ends, committed or with an error that WriteTransaction returns.  The Go *)
(* scheduler runs every goroutine that can take a step: the consumer       *)
(* (receive, transaction, cache add, Done, return of Load) and a producer  *)
(* whose wg.Wait() can return.  Nothing obliges a producer to call Save or *)
(* the owner to call Close or WaitForAll.                                  *)
(***************************************************************************)
SwallowedOutcomes == WriteOutcomes \ {"exec_err"}

\* An asynchronous store gets enough Save calls to fill the buffer and park
\* every producer.  In a synchronous store a producer has one task in the
\* channel at most, the buffer never fills, and MaxSaves calls show all there
\* is to see.
InitLive ==
    /\ InitPipe
    /\ synced \in BOOLEAN
    /\ univ = {1}
    /\ budget = (IF synced THEN MaxSaves ELSE MaxSavesQ)
    /\ epoch = 1
    /\ epochSet = 0

NextLive ==
    \/ \E p \in Producers, e \in Events : Save(p, e)
    \/ \E p \in Producers : SaveReturn(p)
    \/ Close
    \/ WaitForAll
    \/ LoadRecv
    \/ \E o \in SwallowedOutcomes : LoadTx(o)
    \/ LoadAdd
    \/ LoadDone
    \/ LoadExit

Fairness ==
    /\ WF_vars(LoadRecv)
    /\ WF_vars(\E o \in SwallowedOutcomes : LoadTx(o))
    /\ WF_vars(LoadAdd)
    /\ WF_vars(LoadDone)
    /\ WF_vars(LoadExit)
    /\ \A p \in Producers : WF_vars(SaveReturn(p))

SpecLive == InitLive /\ [][NextLive]_vars /\ Fairness

(***************************************************************************)
(* The epoch operations on a store whose bootstrap did or did not seed the *)
(* Epoch row.                                                              *)
(***************************************************************************)
InitEpoch ==
    /\ InitPipe
    /\ synced \in BOOLEAN
    /\ univ = Events
    /\ budget = 0
    /\ epoch \in {NoRow, 1}
    /\ epochSet = 0

NextEpoch ==
    \/ \E v \in 1..MaxEpoch, o \in WriteOutcomes : SetEpochCall(v, o)
    \/ \E o \in ReadOutcomes : GetEpochCall(o)
    \/ ReadReturn

SpecEpoch == InitEpoch /\ [][NextEpoch]_vars

(***************************************************************************)
(* Properties.                                                             *)
(***************************************************************************)
\* The first place of <<kind, id>> in the consumer's history, 0 if none.
LogPos(kind, id) ==
    LET S == {k \in 1..Len(log) : log[k][1] = kind /\ log[k][2] = id}
    IN IF S = {} THEN 0 ELSE CHOOSE k \in S : \A j \in S : k <= j

\* Task id went through commit attempt, cache add and completion, in order.
Processed(id) ==
    /\ LogPos("commit", id) > 0
    /\ LogPos("commit", id) < LogPos("cache", id)
    /\ LogPos("cache", id) < LogPos("done", id)

\* The consumer holds a task it has received and not yet completed.
Holding == cpc \in {"tx", "add", "done", "panic"}

\* This step is the return of the synchronous Save of producer p.
SaveReturnStep(p) == ppc[p] = "wait" /\ ppc'[p] = "idle"

\* This step is a call of GetEvent / HasEvent / FindAncestors.
GetEventStep == ret.op = "none" /\ ret'.op = "GetEvent"

\* The store answered every read of the call.
ReadsOk(r) == \A i \in 1..Len(r.outcome) : r.outcome[i] \in {"ok", "none"}

\* C1 as stated: a GetEvent(e.hash) issued after a synchronous Save(e) has
\* returned yields e's header.  Stated for the calls whose reads the store
\* answers, the case most favourable to the claim.
C1_Original ==
    [][(GetEventStep /\ ret'.arg \in returned /\ ReadsOk(ret'))
       => (~ret'.panic /\ ret'.val = EventOf(ret'.arg))]_vars

\* C1 as amended: when a synchronous Save(e) returns, the consumer has made
\* the commit attempt of e's task, then added e to the cache, then fired
\* the task's completion signal (the consumer's history only grows, so this
\* stays true after the return); and a GetEvent(e.hash) issued after the
\* return while e is in the cache yields e's header.
C1_AtReturn ==
    /\ \A p \in Producers :
          SaveReturnStep(p) =>
              /\ ptask[p].event = pev[p]
              /\ pev[p] \in returned'
              /\ Processed(ptask[p].id)
    /\ SubSeq(log', 1, Len(log)) = log

C1_GetCached ==
    (GetEventStep /\ ret'.arg \in returned /\ InCache(ret'.arg))
    => (~ret'.panic /\ ret'.val = EventOf(ret'.arg))

C1_SyncSave == [][C1_AtReturn /\ C1_GetCached]_vars

\* C1 witness: a synchronous Save(e) has returned, e's commit failed, and
\* GetEvent(e.hash) was answered with e's header from the cache.
C1_Witness ==
    /\ Running
    /\ ret.op = "GetEvent"
    /\ ret.outcome = <<"none", "none">>
    /\ ret.val = EventOf(ret.arg)
    /\ ret.arg \notin nodes
    /\ ret.arg \in returned

\* C2 as stated: HasEvent(e.hash) is true for every task in the buffer.
\* Stated for the call whose read the store answers.
C2_Original ==
    \A i \in 1..Len(out) :
        HasEvent(out[i].event, "ok") = [panic |-> FALSE, val |-> TRUE]

\* C2 as amended: HasEvent(e.hash) is true once the consumer has added e to
\* the cache, which it does after the commit attempt of e's task and before
\* the task's completion signal: when the signal is about to fire,
\* HasEvent(e.hash) is true whatever the store answers.
C2_TrueBeforeSignal ==
    cpc = "done" =>
        /\ LogPos("commit", cur.id) > 0
        /\ \A o \in ReadOutcomes :
              HasEvent(cur.event, o) = [panic |-> FALSE, val |-> TRUE]

\* C2 witness: the signal is about to fire for an event whose commit failed
\* and whose cache add evicted another entry.
C2_Witness ==
    /\ Running
    /\ cpc = "done"
    /\ cur.event \notin nodes
    /\ Len(cache) = CacheSize
    /\ total >= CacheSize

\* C3: the buffer never holds more than QueueCap tasks; it holds the most
\* recently enqueued tasks in enqueue order (none dropped, none overwritten);
\* every task that left it was received by the consumer; a producer is
\* parked only while the buffer is full, and its task is then not enqueued;
\* a parked producer gets on only by a receive of the consumer, which puts
\* its task in the freed slot.
C3_Inv ==
    /\ Len(out) <= QueueCap
    /\ \A i \in 1..Len(out) : out[i].id = nsent - Len(out) + i
    /\ nsent - Len(out) = total + (IF Holding THEN 1 ELSE 0)
    /\ Holding => cur.id = total + 1
    /\ sendq # <<>> => Len(out) = QueueCap
    /\ \A p \in Producers :
          ppc[p] = "blocked" =>
              /\ Len(out) = QueueCap
              /\ ptask[p].id = 0
              /\ \E i \in 1..Len(sendq) : sendq[i] = p

C3_Step ==
    \A p \in Producers :
        (ppc[p] = "blocked" /\ ppc'[p] # "blocked") =>
            /\ cur' = out[1]
            /\ Len(out') = QueueCap
            /\ nsent' = nsent + 1
            /\ out'[QueueCap] = [ptask[p] EXCEPT !.id = nsent']

Kinds == <<"commit", "cache", "done">>

C5_CommitsInEnqueueOrder ==
    \A k \in 1..Len(log) :
        /\ log[k][1] = Kinds[((k - 1) % 3) + 1]
        /\ log[k][2] = ((k - 1) \div 3) + 1

\* C5 witness: the first task is complete while two later ones wait.
C5_Witness ==
    /\ Running
    /\ Len(log) = 3
    /\ Len(out) = 2

HasEventStep == ret.op = "none" /\ ret'.op = "HasEvent"

FindAncestorsStep == ret.op = "none" /\ ret'.op = "FindAncestors"

\* The store's read transaction failed in the call (ReadTransaction
\* returned an error), and no ctx.Run of the call did.
TxFailed(r) ==
    /\ \E i \in 1..Len(r.outcome) : r.outcome[i] = "tx_err"
    /\ \A i \in 1..Len(r.outcome) : r.outcome[i] # "query_err"

\* The events reachable from e over one or more parent links of the DAG.
RECURSIVE DagAncestors(_)
DagAncestors(e) ==
    Parents(e) \cup UNION {DagAncestors(p) : p \in Parents(e)}

Range(q) == {q[i] : i \in 1..Len(q)}

NoDuplicates(q) == \A i, j \in 1..Len(q) : q[i] = q[j] => i = j

\* e and all its ancestors were committed, each after its parents: the
\* store holds their nodes and every parent edge between them.
StoreHasAncestry(e) ==
    \A a \in {e} \cup DagAncestors(e) :
        /\ a \in nodes
        /\ \A p \in Parents(a) : <<a, p>> \in edges

\* C6 as stated: for an event e saved after its parents, FindAncestors(e.hash)
\* returns exactly the events reachable from e over parent links, each
\* once.  Stated for the calls made when every save concerned has been
\* committed in order, the case most favourable to the claim.
C6_Claim ==
    [][(FindAncestorsStep /\ StoreHasAncestry(ret'.arg))
       => /\ ~ret'.panic
          /\ Range(ret'.val) = DagAncestors(ret'.arg)
          /\ NoDuplicates(ret'.val)]_vars

\* The part of C6 the code keeps: the same, for the calls whose read the
\* store answers.
C6_WhenAnswered ==
    [][(FindAncestorsStep /\ StoreHasAncestry(ret'.arg) /\ ReadsOk(ret'))
       => /\ ~ret'.panic
          /\ Range(ret'.val) = DagAncestors(ret'.arg)
          /\ NoDuplicates(ret'.val)]_vars

\* C7 as stated: GetEpoch returns 1 while no SetEpoch was made, and the
\* argument of the last SetEpoch afterwards.  Stated for the calls the
\* store answers and the SetEpoch transactions it commits, the case most
\* favourable to the claim.
C7_Claim ==
    (ret.op = "GetEpoch" /\ ReadsOk(ret))
        => /\ ~ret.panic
           /\ ret.val = (IF epochSet = 0 THEN 1 ELSE epochSet)

\* C8 as stated: a read operation whose read transaction fails returns
\* normally and leaves pipeline and cache as they were.
C8_Claim ==
    [][((HasEventStep \/ GetEventStep \/ FindAncestorsStep) /\ TxFailed(ret'))
       => /\ ~ret'.panic
          /\ panicked' = panicked
          /\ UNCHANGED <<pipeVars, cache>>]_vars

\* C9 as stated: whatever way the write transaction of a task fails, the
\* consumer goes on with the task (cache add, completion signal) and with
\* the tasks after it.
C9_Claim ==
    (Holding /\ LogPos("commit", cur.id) > 0) => panicked # "Load: exec"

\* C10 as stated: for a hash neither cached nor stored, HasEvent returns
\* false and GetEvent returns nil, without an error and without a change
\* of cache or store.
C10_Claim ==
    [][((HasEventStep \/ GetEventStep)
        /\ ~InCache(ret'.arg) /\ ret'.arg \notin nodes)
       => /\ ~ret'.panic
          /\ ret'.op = "HasEvent" => ret'.val = FALSE
          /\ ret'.op = "GetEvent" => ret'.val = NilEvent
          /\ UNCHANGED <<cache, nodes, edges>>]_vars

\* The part of C10 the code keeps: the same, for the calls whose read the
\* store answers.
C10_WhenAnswered ==
    [][((HasEventStep \/ GetEventStep) /\ ReadsOk(ret')
        /\ ~InCache(ret'.arg) /\ ret'.arg \notin nodes)
       => /\ ~ret'.panic
          /\ ret'.op = "HasEvent" => ret'.val = FALSE
          /\ ret'.op = "GetEvent" => ret'.val = NilEvent
          /\ UNCHANGED <<cache, nodes, edges>>]_vars

\* C11 as stated: every event in the cache is stored or will be stored.
\* Once Load has returned no commit is made any more, so then every event
\* in the cache has to be in the store.
C11_Claim ==
    cpc = "exited" => \A i \in 1..Len(cache) : cache[i] \in nodes

\* C12 as stated: a GetEvent that misses the cache and finds the event in
\* the store leaves the event in the cache.
C12_Claim ==
    [][(/\ GetEventStep
        /\ ~InCache(ret'.arg)
        /\ ~ret'.panic
        /\ ret'.val # NilEvent)
       => \E i \in 1..Len(cache') : cache'[i] = ret'.arg]_vars

\* How often the consumer did kind for task id.
Count(kind, id) ==
    Cardinality({k \in 1..Len(log) : log[k][1] = kind /\ log[k][2] = id})

\* Never two, and in order: each of commit attempt, cache add and completion
\* at most once per task, none without the one before it.
AtMostOnceInOrder(id) ==
    /\ Count("commit", id) <= 1
    /\ Count("cache", id) <= 1
    /\ Count("done", id) <= 1
    /\ Count("cache", id) = 1 =>
          LogPos("commit", id) > 0 /\ LogPos("commit", id) < LogPos("cache", id)
    /\ Count("done", id) = 1 =>
          LogPos("cache", id) > 0 /\ LogPos("cache", id) < LogPos("done", id)

\* C13 as stated: each enqueued task gets exactly one commit attempt, one
\* cache add and one completion, in that order.  Never two: as above.  Never
\* zero: a task whose commit attempt was made and whose completion has not
\* fired is the one the consumer is going on with.
C13_Claim ==
    \A id \in 1..nsent :
        /\ AtMostOnceInOrder(id)
        /\ (Count("commit", id) = 1 /\ Count("done", id) = 0) =>
              (Holding /\ cur.id = id /\ panicked # "Load: exec")

\* The part of C13 the code keeps: never two, in order, and all three for
\* every task the consumer has finished with.
C13_AtMostOnce ==
    /\ \A id \in 1..nsent : AtMostOnceInOrder(id)
    /\ \A id \in 1..total : Processed(id) /\ Count("done", id) = 1

\* C14: a synchronous Save waits for the completion signal of its own task
\* and for nothing else: while producer p is in wg.Wait(), its counter is 0
\* exactly when the signal of p's task has fired, whatever happened to the
\* other tasks; from then on p can return, whatever is still queued; and
\* when p returns, the signal of its task has fired.
C14_Inv ==
    \A p \in Producers :
        ppc[p] = "wait" =>
            /\ ptask[p].id > 0
            /\ wg[p] = (IF Count("done", ptask[p].id) > 0 THEN 0 ELSE 1)
            /\ (Count("done", ptask[p].id) > 0 /\ Ready) => ENABLED SaveReturn(p)

C14_Step ==
    \A p \in Producers :
        SaveReturnStep(p) => Count("done", ptask[p].id) = 1

C14_PerTaskBarrier == [](C14_Inv) /\ [][C14_Step]_vars

\* C14 witness: one synchronous Save has returned while the task another
\* producer enqueued after it is still in the buffer and that producer
\* still waits.
C14_Witness ==
    /\ Running
    /\ returned # {}
    /\ out # <<>>
    /\ \E p \in Producers : ppc[p] = "wait" /\ wg[p] = 1

\* This step is a commit attempt of the consumer.
CommitStep == Len(log') = Len(log) + 1 /\ log'[Len(log')][1] = "commit"

\* C15: the commit of an event is one unit.  No PARENT edge of the store
\* lacks one of its two nodes; a commit attempt that succeeds adds the
\* event's node together with edges from it to parents and nothing else; a
\* commit attempt that fails, in either way, leaves nodes and edges as they
\* were; and no other step of the pipeline changes the store.
C15_Inv ==
    \A ed \in edges : ed[1] \in nodes /\ ed[2] \in nodes

C15_Step ==
    IF CommitStep
    THEN IF lastTx' = "ok"
         THEN /\ cur.event \notin nodes
              /\ nodes' = nodes \cup {cur.event}
              /\ edges \subseteq edges'
              /\ \A ed \in edges' \ edges :
                    ed[1] = cur.event /\ ed[2] \in Parents(cur.event)
         ELSE UNCHANGED <<nodes, edges>>
    ELSE UNCHANGED <<nodes, edges>>

C15_AtomicCommit == [](C15_Inv) /\ [][C15_Step]_vars

\* C15 witness: the commit of an event with a stored parent has failed at
\* ctx.Commit, and the store holds neither its node nor an edge from it.
C15_Witness ==
    /\ Running
    /\ cpc = "add"
    /\ lastTx = "commit_err"
    /\ Parents(cur.event) \cap nodes # {}
    /\ cur.event \notin nodes
    /\ \A ed \in edges : ed[1] # cur.event

\* C16 as stated: once e and all its ancestors are committed, in whatever
\* order, FindAncestors(e.hash) comes to return all of them.  After Load has
\* returned the store does not change any more, so a call made then and
\* answered by the store has to return them.
C16_Claim ==
    [][(/\ FindAncestorsStep
        /\ ReadsOk(ret')
        /\ cpc = "exited"
        /\ ({ret'.arg} \cup DagAncestors(ret'.arg)) \subseteq nodes)
       => /\ ~ret'.panic
          /\ Range(ret'.val) = DagAncestors(ret'.arg)]_vars

\* The ids a task can get in a run of SpecLive.
TaskIds == 1..MaxSavesQ

\* The completion signal of task id has fired.
Completed(id) == \E k \in 1..Len(log) : log[k] = <<"done", id>>

\* The second half of C17: while the consumer is in the transaction of a
\* task (for as long as that takes), no task enqueued later has had a
\* commit attempt, a cache add or a completion.
C17_StuckBlocks ==
    cpc = "tx" =>
        \A k \in 1..Len(log) : log[k][2] < cur.id \/ log[k] = <<"commit", cur.id>>

C18_Claim ==
    /\ [](Len(cache) <= CacheSize)
    /\ [][((HasEventStep \/ GetEventStep) /\ ret'.arg \in nodes)
          => /\ ~ret'.panic
             /\ ret'.op = "HasEvent" => ret'.val = TRUE
             /\ ret'.op = "GetEvent" => ret'.val = EventOf(ret'.arg)]_vars

\* The part of C18 the code keeps: the cache bound; and, for the calls whose
\* reads the store answers, HasEvent true and GetEvent the stored header,
\* with the parents whose edges the store holds.
C18_WhenAnswered ==
    /\ [](Len(cache) <= CacheSize /\ NoDuplicates(cache))
    /\ [][((HasEventStep \/ GetEventStep) /\ ret'.arg \in nodes /\ ReadsOk(ret'))
          => /\ ~ret'.panic
             /\ ret'.op = "HasEvent" => ret'.val = TRUE
             /\ ret'.op = "GetEvent" =>
                   /\ ret'.val.id = ret'.arg
                   /\ ret'.val.creator = Creator(ret'.arg)
                   /\ ret'.val.parents \subseteq Parents(ret'.arg)]_vars

ChannelPanics == {"send on closed channel", "close of closed channel"}

\* C19: once the channel is closed no task is accepted.  On a closed channel
\* a Save can only panic, and so can a Close; no living process has a
\* producer parked on a closed channel.  A step from a closed channel
\* enqueues nothing and starts no Save; the buffer changes only by the
\* consumer taking its first task.  The Close that finds producers parked
\* makes their send panic.  A step into one of these panics leaves the
\* buffer as it was.
C19_Inv ==
    /\ (closed /\ Ready) =>
          /\ ~ENABLED (Close /\ panicked' = "none")
          /\ ENABLED (Close /\ panicked' = "close of closed channel")
          /\ \A p \in Producers, e \in Events :
                /\ ~ENABLED (Save(p, e) /\ panicked' = "none")
                /\ (ppc[p] = "idle" /\ FirstIdle(p) /\ budget > 0 /\ e \in univ) =>
                      ENABLED (Save(p, e) /\ panicked' = "send on closed channel")
    /\ (closed /\ Running) => sendq = <<>>

C19_Step ==
    /\ closed =>
          /\ nsent' = nsent
          /\ out' = out \/ (out # <<>> /\ out' = Tail(out) /\ cur' = out[1])
          /\ \A p \in Producers : ppc[p] = "idle" => ppc'[p] = "idle"
    /\ (~closed /\ closed') =>
          /\ out' = out /\ nsent' = nsent
          /\ panicked' = (IF sendq # <<>> THEN "send on closed channel" ELSE "none")
    /\ (panicked = "none" /\ panicked' \in ChannelPanics) =>
          /\ closed'
          /\ out' = out /\ sendq' = sendq /\ nsent' = nsent

C19_ClosedAcceptsNothing == [](C19_Inv) /\ [][C19_Step]_vars

\* C19 witness: Close found a producer parked behind the full buffer, and
\* its send has panicked.
C19_Witness ==
    /\ panicked = "send on closed channel"
    /\ sendq # <<>>
    /\ Len(out) = QueueCap

\* C20 as stated: WaitForAll returns only when Close has been called and
\* Load has returned after processing every enqueued task; with no Close it
\* does not return.
C20_Claim ==
    wpc = "returned" =>
        /\ closed
        /\ cpc = "exited"
        /\ out = <<>>
        /\ total = nsent
        /\ \A id \in 1..nsent : Processed(id)

\* The part of C20 the code keeps: the same, unless Load has panicked.
C20_UnlessLoadPanics ==
    (wpc = "returned" /\ cpc # "panic") =>
        /\ closed
        /\ cpc = "exited"
        /\ out = <<>>
        /\ total = nsent
        /\ \A id \in 1..nsent : Processed(id)

====
